---- MODULE Spec2Model ----
(***************************************************************************)
(* Model of SkGpuBlurUtils::GaussianBlur (src/unnamed/part_001): the sigma *)
(* planner adjust_sigma, the decimation loop, the 1-D / 2-D convolution    *)
(* passes and the re-expansion, as one sequential call.  The renderer is   *)
(* external: a surface allocation (makeDeferredRenderTargetContext) and a  *)
(* texture reference (asTextureProxyRef) may each fail, nondeterministic-  *)
(* ally; draws and clears are recorded in the order they are issued.       *)
(*                                                                         *)
(* A float sigma is a pair <<n, d>> standing for the rational n/d with d a *)
(* power of two: halving (sigma *= 0.5f) doubles d and is exact, as it is  *)
(* in binary floating point; the requested sigmas have few significant     *)
(* bits, so sigma * 3.0f is exact too.  SkASSERT is a no-op in a release   *)
(* build; the model continues past a failed assertion and records it in    *)
(* the variable asserted.                                                  *)
(***************************************************************************)
EXTENDS Integers, Sequences, FiniteSets, TLC

\* ---------------------------------------------------------------- bounds
\* Requested sigmas are 1/4, 1/2, 5/4 and the integers 0 .. MaxSigma.
MaxSigma == 9
\* The renderer's maximum texture size ranges over 1 .. MaxTex.
MaxTex == 3
\* Destination width and height range over 1 .. MaxDim.
MaxDim == 2

\* ------------------------------------------------------ program constants
MAX_BLUR_SIGMA == <<4, 1>>
MAX_KERNEL_SIZE == 25
kMaxKernelRadius == 12

\* ------------------------------------------------------------ float model
SigmaGT(a, b) == a[1] * b[2] > b[1] * a[2]
SigmaHalf(a) == <<a[1], 2 * a[2]>>
\* static_cast<int>(ceilf(sigma * 3.0f))
CeilTimes3(a) == -((-(3 * a[1])) \div a[2])
\* SkScalarFloorToInt(v * (1.0f / s)) and SkScalarCeilToInt(v * (1.0f / s))
FloorDiv(v, s) == v \div s
CeilDiv(v, s) == -((-v) \div s)
\* C++ int / 2 truncates toward zero
TruncHalf(v) == IF v >= 0 THEN v \div 2 ELSE -((-v) \div 2)
is_even(x) == x % 2 = 0
SkIsPow2(n) == n > 0 /\ \E k \in 0..30 : n = 2 ^ k

\* ------------------------------------------------------------------ SkIRect
MakeLTRB(l, t, r, b) == [fLeft |-> l, fTop |-> t, fRight |-> r, fBottom |-> b]
MakeWH(w, h) == MakeLTRB(0, 0, w, h)
MakeXYWH(x, y, w, h) == MakeLTRB(x, y, x + w, y + h)
Width(r) == r.fRight - r.fLeft
Height(r) == r.fBottom - r.fTop
IsEmpty(r) == r.fLeft >= r.fRight \/ r.fTop >= r.fBottom
Offset(r, p) == MakeLTRB(r.fLeft + p[1], r.fTop + p[2], r.fRight + p[1], r.fBottom + p[2])
Inset(r, dx, dy) == MakeLTRB(r.fLeft + dx, r.fTop + dy, r.fRight - dx, r.fBottom - dy)
OffsetTo(r, x, y) == MakeLTRB(x, y, x + Width(r), y + Height(r))
\* rectangle a lies inside rectangle b
Inside(a, b) ==
    /\ b.fLeft <= a.fLeft /\ a.fRight <= b.fRight
    /\ b.fTop <= a.fTop /\ a.fBottom <= b.fBottom

scale_irect_roundout(r, sx, sy) ==
    MakeLTRB(FloorDiv(r.fLeft, sx), FloorDiv(r.fTop, sy),
             CeilDiv(r.fRight, sx), CeilDiv(r.fBottom, sy))

\* Variant: the X scale factor is applied to both axes.
scale_irect_x_for_both(r, sx, sy) ==
    MakeLTRB(r.fLeft * sx, r.fTop * sx, r.fRight * sx, r.fBottom * sx)

\* Variant: the two scale factors are applied to the wrong axes.
scale_irect_swapped(r, sx, sy) ==
    MakeLTRB(r.fLeft * sy, r.fTop * sx, r.fRight * sy, r.fBottom * sx)

scale_irect(r, sx, sy) ==
    MakeLTRB(r.fLeft * sx, r.fTop * sy, r.fRight * sx, r.fBottom * sy)

\* Variant: both axes are halved whatever the flags say.
shrink_irect_by_2_both(r, xAxis, yAxis) ==
    MakeLTRB(TruncHalf(r.fLeft), TruncHalf(r.fTop), TruncHalf(r.fRight), TruncHalf(r.fBottom))

shrink_irect_by_2(r, xAxis, yAxis) ==
    MakeLTRB(IF xAxis THEN TruncHalf(r.fLeft) ELSE r.fLeft,
             IF yAxis THEN TruncHalf(r.fTop) ELSE r.fTop,
             IF xAxis THEN TruncHalf(r.fRight) ELSE r.fRight,
             IF yAxis THEN TruncHalf(r.fBottom) ELSE r.fBottom)

\* The SkASSERTs of shrink_irect_by_2 hold
ShrinkEvenOK(r, xAxis, yAxis) ==
    /\ xAxis => is_even(r.fLeft) /\ is_even(r.fRight)
    /\ yAxis => is_even(r.fTop) /\ is_even(r.fBottom)

\* ------------------------------------------------------------ enumerations
Modes == {"kIgnore_Mode", "kClamp_Mode", "kRepeat_Mode", "kDecal_Mode"}
Fits == {"kApprox", "kExact"}
NoRect == MakeLTRB(0, 0, 0, 0)

\* ------------------------------------------------- renderer command records
NoBounds == <<0, 0>>
AllocOp(stage, f, w, h, ok) ==
    [stage |-> stage, op |-> "alloc", fit |-> f, rect |-> MakeWH(w, h), src |-> NoRect,
     mode |-> "-", bounds |-> NoBounds, ok |-> ok]
\* a fill-rect draw into rect r, sampling the source over rect s with domain mode m
DrawOp(stage, r, s, m, b) ==
    [stage |-> stage, op |-> "draw", fit |-> "-", rect |-> r, src |-> s,
     mode |-> m, bounds |-> b, ok |-> TRUE]
ClearOp(stage, r) ==
    [stage |-> stage, op |-> "clear", fit |-> "-", rect |-> r, src |-> NoRect,
     mode |-> "-", bounds |-> NoBounds, ok |-> TRUE]
RefOp(stage, ok) ==
    [stage |-> stage, op |-> "ref", fit |-> "-", rect |-> NoRect, src |-> NoRect,
     mode |-> "-", bounds |-> NoBounds, ok |-> ok]
Surface(w, h, f) == [w |-> w, h |-> h, fit |-> f]

VARIABLES
    pc,                 \* position in GaussianBlur
    argSigmaX, argSigmaY, \* the caller's sigmaX / sigmaY arguments
    maxTextureSize,     \* context->caps()->maxTextureSize()
    dstBounds, srcBounds, mode, fit,
    config,             \* the pixel config get_blur_config returns for the source
    sigmaX, sigmaY, scaleFactorX, scaleFactorY, radiusX, radiusY,
    srcOffset, xFit, yFit, localSrcBounds, srcRect,
    decSrcRect, decDstRect, i, \* decimate's srcRect, dstRect and loop counter
    surfaces,           \* the surfaces allocated so far: <<[w, h, fit]>>
    rtc,                \* dstRenderTargetContext: index into surfaces, 0 = nullptr
    ops,                \* renderer requests in issue order
    stages,             \* the stages entered, in order
    asserted,           \* the SkASSERTs that would fire in a debug build
    result              \* returned surface index; 0 = nullptr

vars == <<pc, argSigmaX, argSigmaY, maxTextureSize, dstBounds, srcBounds, mode, fit, config,
          sigmaX, sigmaY, scaleFactorX, scaleFactorY, radiusX, radiusY,
          srcOffset, xFit, yFit, localSrcBounds, srcRect,
          decSrcRect, decDstRect, i, surfaces, rtc, ops, stages, asserted, result>>

inputs == <<argSigmaX, argSigmaY, maxTextureSize, dstBounds, srcBounds, mode, fit, config>>
plan == <<sigmaX, sigmaY, scaleFactorX, scaleFactorY, radiusX, radiusY>>
geom == <<srcOffset, xFit, yFit, localSrcBounds, srcRect>>
decim == <<decSrcRect, decDstRect, i>>
gpu == <<surfaces, rtc, ops, stages>>

\* the pixel configs of the source: one the blur supports, one it does not
Configs == {"kRGBA_8888_GrPixelConfig", "kUnknown_GrPixelConfig"}

\* whether GrPixelConfigToColorType finds a color type for the config
GrPixelConfigToColorType(c) == c # "kUnknown_GrPixelConfig"

\* the SkASSERT of get_blur_config over the configs it lists
BlurConfigAssert(c) == IF c = "kRGBA_8888_GrPixelConfig" THEN {} ELSE {"blurConfig"}

\* every requested sigma of the planner's domain
SigmaInputs == {<<1, 4>>, <<1, 2>>, <<5, 4>>} \cup {<<n, 1>> : n \in 0..MaxSigma}
\* one requested sigma per outcome of the planner: zero, small enough to fuse,
\* and one per scale factor (1, 2, 4 or clamped)
PipelineSigmas == {<<0, 1>>, <<1, 2>>} \cup {<<4 * k + 1, 1>> : k \in 0..(MaxSigma \div 4)}

\* Locals at the call of GaussianBlur; those not yet assigned hold 0.
InitLocals ==
    /\ pc = "start"
    /\ sigmaX = argSigmaX
    /\ sigmaY = argSigmaY
    /\ scaleFactorX = 0 /\ scaleFactorY = 0 /\ radiusX = 0 /\ radiusY = 0
    /\ srcOffset = <<0, 0>>
    /\ xFit = fit /\ yFit = fit
    /\ localSrcBounds = NoRect /\ srcRect = NoRect
    /\ decSrcRect = NoRect /\ decDstRect = NoRect /\ i = 0
    /\ surfaces = <<>>
    /\ rtc = 0
    /\ ops = <<>>
    /\ stages = <<>>
    /\ asserted = {}
    /\ result = 0

\* Calls over every mode, fit and geometry, one sigma per planner outcome.
Init ==
    /\ argSigmaX \in PipelineSigmas
    /\ argSigmaY \in PipelineSigmas
    /\ maxTextureSize \in 1..MaxTex
    /\ \E x \in 0..1, w \in 1..MaxDim, h \in 1..MaxDim :
          dstBounds = MakeXYWH(x, x, w, h)
    /\ srcBounds \in {MakeWH(MaxDim, MaxDim), dstBounds}
    /\ mode \in Modes
    /\ fit \in Fits
    /\ config \in Configs
    /\ InitLocals

\* Calls over every requested sigma pair, for the claims about the planner.
InitPlan ==
    /\ argSigmaX \in SigmaInputs
    /\ argSigmaY \in SigmaInputs
    /\ maxTextureSize \in 1..MaxTex
    /\ \E w \in 1..MaxDim, h \in 1..MaxDim : dstBounds = MakeXYWH(0, 0, w, h)
    /\ srcBounds = dstBounds
    /\ mode = "kClamp_Mode"
    /\ fit = "kExact"
    /\ config = "kRGBA_8888_GrPixelConfig"
    /\ InitLocals

\* the requested sigmas of the calls that reach decimate: zero, one that keeps
\* scale factor 1 with a pass still to run, and one per scale factor above 1
DecimateSigmas == PipelineSigmas \ {<<1, 2>>}

\* Calls that decimate, over content rectangles, source offsets (the negated
\* origin of dstBounds) and modes; the larger maximum texture size lets the
\* scale factor double twice.
InitDecimate ==
    /\ argSigmaX \in DecimateSigmas
    /\ argSigmaY \in DecimateSigmas
    /\ maxTextureSize \in {MaxTex, 2 * MaxTex}
    /\ \E x \in 0..1, d \in 1..MaxDim : dstBounds = MakeXYWH(x, x, d, d)
    /\ \E l \in 0..1, t \in 0..1, w \in 1..(MaxDim + 3), h \in {1, MaxDim + 1} :
          srcBounds = MakeXYWH(l, t, w, h)
    /\ mode \in Modes
    /\ fit = "kExact"
    /\ config = "kRGBA_8888_GrPixelConfig"
    /\ InitLocals

\* the requested sigmas of the calls that convolve at full size: radius 0, 1, 2, 3
ConvolveSigmas == {<<0, 1>>, <<1, 4>>, <<1, 2>>, <<1, 1>>}

\* Calls that do not decimate, over destinations and content rectangles narrower
\* and wider than the kernels, source offsets and modes.
InitConvolve ==
    /\ argSigmaX \in ConvolveSigmas
    /\ argSigmaY \in ConvolveSigmas
    /\ maxTextureSize = MaxTex
    /\ \E x \in 0..1, w \in {MaxDim + 1, MaxDim + 5}, h \in {MaxDim + 1, MaxDim + 5} :
          dstBounds = MakeXYWH(x, x, w, h)
    /\ \E l \in 0..1, t \in 0..1, w \in {1, MaxDim + 1, MaxDim + 5},
          h \in {1, MaxDim + 1, MaxDim + 5} : srcBounds = MakeXYWH(l, t, w, h)
    /\ mode \in Modes
    /\ fit = "kExact"
    /\ config = "kRGBA_8888_GrPixelConfig"
    /\ InitLocals

\* the sigmas of the scenario calls: fused, two passes at full size, decimated
ScenarioSigmas == {<<1, 2>>, <<1, 1>>, <<8, 1>>}

\* Blurs of a 200x200 destination, the source content either the whole
\* destination or the 100x100 square in its centre.
InitScenario ==
    /\ argSigmaX \in ScenarioSigmas
    /\ argSigmaY \in ScenarioSigmas
    /\ maxTextureSize \in 1..MaxTex
    /\ \E x \in {0, 50} : dstBounds = MakeXYWH(x, x, 200, 200)
    /\ srcBounds \in {MakeXYWH(50, 50, 100, 100), dstBounds}
    /\ mode \in Modes
    /\ fit \in Fits
    /\ config = "kRGBA_8888_GrPixelConfig"
    /\ InitLocals

\* ------------------------------------------------------------ adjust_sigma
\* Variant: a capped iteration leaves sigma as it was on entry to the iteration.
adjust_sigma_body_cap_only(sigma, scaleFactor, maxTex) ==
    IF 2 * scaleFactor > maxTex
    THEN [sigma |-> sigma, scaleFactor |-> maxTex]
    ELSE [sigma |-> SigmaHalf(sigma), scaleFactor |-> 2 * scaleFactor]

\* Variant: the scale factor is doubled without the cap at maxTextureSize.
adjust_sigma_body_nocap(sigma, scaleFactor, maxTex) ==
    [sigma |-> SigmaHalf(sigma), scaleFactor |-> 2 * scaleFactor]

\* Variant: the scale factor is capped but sigma is not set to MAX_BLUR_SIGMA.
adjust_sigma_body_keep_sigma(sigma, scaleFactor, maxTex) ==
    IF 2 * scaleFactor > maxTex
    THEN [sigma |-> SigmaHalf(sigma), scaleFactor |-> maxTex]
    ELSE [sigma |-> SigmaHalf(sigma), scaleFactor |-> 2 * scaleFactor]

\* Variant: on exceeding maxTextureSize the scale factor falls back to 1.
adjust_sigma_body_reset(sigma, scaleFactor, maxTex) ==
    IF 2 * scaleFactor > maxTex
    THEN [sigma |-> MAX_BLUR_SIGMA, scaleFactor |-> 1]
    ELSE [sigma |-> SigmaHalf(sigma), scaleFactor |-> 2 * scaleFactor]

\* One iteration of the while loop: [sigma, scaleFactor] after the body.
adjust_sigma_body(sigma, scaleFactor, maxTex) ==
    IF 2 * scaleFactor > maxTex
    THEN [sigma |-> MAX_BLUR_SIGMA, scaleFactor |-> maxTex]
    ELSE [sigma |-> SigmaHalf(sigma), scaleFactor |-> 2 * scaleFactor]

adjust_sigma_continues(sigma) == SigmaGT(sigma, MAX_BLUR_SIGMA)

\* Variant: the radius is truncated and incremented instead of rounded up.
adjust_sigma_radius_trunc(sigma) == ((3 * sigma[1]) \div sigma[2]) + 1

\* the radius computed on leaving the loop
adjust_sigma_radius(sigma) == CeilTimes3(sigma)

RadiusAssert(radius, name) == IF radius <= kMaxKernelRadius THEN {} ELSE {name}

\* Variant: the result of GrPixelConfigToColorType is not looked at.
ColorTypeUnchecked(c) == "adjustX"

\* where GaussianBlur goes after the color type lookup: on with the planning,
\* or out with nullptr
ColorTypeCheck(c) == IF GrPixelConfigToColorType(c) THEN "adjustX" ELSE "done"

\* GaussianBlur entry up to the first statement of adjust_sigma(sigmaX, ...);
\* result stays nullptr when the color type lookup fails
Start ==
    /\ pc = "start"
    /\ asserted' = asserted \cup BlurConfigAssert(config)
    /\ pc' = ColorTypeCheck(config)
    /\ scaleFactorX' = IF pc' = "adjustX" THEN 1 ELSE scaleFactorX
    /\ UNCHANGED <<inputs, sigmaX, sigmaY, scaleFactorY, radiusX, radiusY,
                   geom, decim, gpu, result>>

AdjustSigmaLoopX ==
    /\ pc = "adjustX"
    /\ adjust_sigma_continues(sigmaX)
    /\ LET n == adjust_sigma_body(sigmaX, scaleFactorX, maxTextureSize)
       IN  sigmaX' = n.sigma /\ scaleFactorX' = n.scaleFactor
    /\ UNCHANGED <<pc, inputs, sigmaY, scaleFactorY, radiusX, radiusY,
                   geom, decim, gpu, asserted, result>>

AdjustSigmaReturnX ==
    /\ pc = "adjustX"
    /\ ~adjust_sigma_continues(sigmaX)
    /\ radiusX' = adjust_sigma_radius(sigmaX)
    /\ asserted' = asserted \cup RadiusAssert(radiusX', "radiusX")
    /\ scaleFactorY' = 1
    /\ pc' = "adjustY"
    /\ UNCHANGED <<inputs, sigmaX, sigmaY, scaleFactorX, radiusY,
                   geom, decim, gpu, result>>

AdjustSigmaLoopY ==
    /\ pc = "adjustY"
    /\ adjust_sigma_continues(sigmaY)
    /\ LET n == adjust_sigma_body(sigmaY, scaleFactorY, maxTextureSize)
       IN  sigmaY' = n.sigma /\ scaleFactorY' = n.scaleFactor
    /\ UNCHANGED <<pc, inputs, sigmaX, scaleFactorX, radiusX, radiusY,
                   geom, decim, gpu, asserted, result>>

AdjustSigmaReturnY ==
    /\ pc = "adjustY"
    /\ ~adjust_sigma_continues(sigmaY)
    /\ radiusY' = adjust_sigma_radius(sigmaY)
    /\ asserted' = asserted \cup RadiusAssert(radiusY', "radiusY")
    /\ pc' = "dispatch"
    /\ UNCHANGED <<inputs, sigmaX, sigmaY, scaleFactorX, scaleFactorY, radiusX,
                   geom, decim, gpu, result>>

\* ------------------------------------------------ GaussianBlur: dispatch
dstW == Width(dstBounds)
dstH == Height(dstBounds)
\* finalDestII.bounds()
dstIIBounds == MakeWH(dstW, dstH)

\* Variant: a pass runs for a zero sigma as well.
SigmaNotNegative(sigma) == sigma[1] >= 0

\* the test "sigma > 0.0f" that guards each 1-D pass
SigmaPositive(sigma) == sigma[1] > 0

\* Variant: the tap count is taken from the radii instead of the kernel widths.
KernelTapsFromRadii(rx, ry) == (rx + 1) * (ry + 1)

\* the tap count of the 2-D kernel
KernelTaps(rx, ry) == (2 * rx + 1) * (2 * ry + 1)

\* the test that selects the single non-separable pass
FusedPath ==
    /\ SigmaPositive(sigmaX)
    /\ SigmaPositive(sigmaY)
    /\ KernelTaps(radiusX, radiusY) <= MAX_KERNEL_SIZE

\* Variant: only the X scale factor is examined.
ScalingXOnly == scaleFactorX > 1

\* some axis is decimated
Scaling == scaleFactorX > 1 \/ scaleFactorY > 1

\* Variant: the X pass keeps the caller's fit although the Y pass follows.
SelectXFitNoYPass == IF Scaling THEN "kApprox" ELSE fit

\* xFit and yFit chosen from the caller's fit
SelectXFit == IF Scaling \/ SigmaPositive(sigmaY) THEN "kApprox" ELSE fit
SelectYFit == IF Scaling THEN "kApprox" ELSE fit

\* Variant: a failure is not checked and the call goes on.
ContinuesOnFailure(ok, next) == next

\* what a failed allocation or texture reference does to the call: it returns
ReturnsOnFailure(ok, next) == IF ok THEN next ELSE "done"

\* GrTextureDomainEffect does not support kRepeat_Mode with bilerp
modeForScaling(m) == IF m = "kRepeat_Mode" THEN "kDecal_Mode" ELSE m

SigmaAssert == IF SigmaPositive(sigmaX) \/ SigmaPositive(sigmaY) THEN {} ELSE {"sigma"}

\* convolve_gaussian_2d: the allocation request of the fused pass
Convolve2DAlloc(ok) == AllocOp("Convolve2D", fit, dstW, dstH, ok)

\* the fused 2-D path, with convolve_gaussian_2d
Convolve2D ==
    /\ pc = "dispatch"
    /\ FusedPath
    /\ srcOffset' = <<-dstBounds.fLeft, -dstBounds.fTop>>
    /\ asserted' = asserted \cup SigmaAssert
                     \cup (IF scaleFactorX = 1 /\ scaleFactorY = 1 THEN {} ELSE {"fusedScale"})
    /\ stages' = Append(stages, "Convolve2D")
    /\ \E allocOk \in BOOLEAN :
         LET a == Convolve2DAlloc(allocOk) IN
         IF allocOk
         THEN /\ surfaces' = Append(surfaces, Surface(Width(a.rect), Height(a.rect), a.fit))
              /\ rtc' = Len(surfaces')
              /\ ops' = ops \o <<a, DrawOp("Convolve2D", dstIIBounds,
                                           Offset(dstIIBounds, <<-srcOffset'[1], -srcOffset'[2]>>),
                                           mode, NoBounds)>>
              /\ result' = rtc'
         ELSE /\ ops' = Append(ops, a)
              /\ UNCHANGED <<surfaces, rtc, result>>
    /\ pc' = "done"
    /\ UNCHANGED <<inputs, plan, xFit, yFit, localSrcBounds, srcRect, decim>>

\* the general path up to the decision to decimate
GeneralPath ==
    /\ pc = "dispatch"
    /\ ~FusedPath
    /\ srcOffset' = <<-dstBounds.fLeft, -dstBounds.fTop>>
    /\ asserted' = asserted \cup SigmaAssert
    /\ xFit' = SelectXFit
    /\ yFit' = SelectYFit
    /\ localSrcBounds' = srcBounds
    /\ pc' = IF Scaling THEN "decimate" ELSE "convolveX"
    /\ UNCHANGED <<inputs, plan, srcRect, decim, gpu, result>>

\* ---------------------------------------------------------------- decimate
\* Variant: the loop also runs when i has reached the scale factor.
DecimateContinuesInclusive == i <= scaleFactorX \/ i <= scaleFactorY

\* the loop condition "i < scaleFactorX || i < scaleFactorY"
DecimateContinues == i < scaleFactorX \/ i < scaleFactorY

DecimateEnter ==
    /\ pc = "decimate"
    /\ stages' = Append(stages, "Decimate")
    /\ asserted' = asserted \cup
          (IF SkIsPow2(scaleFactorX) /\ SkIsPow2(scaleFactorY) THEN {} ELSE {"pow2"})
    /\ LET r0 == IF mode = "kIgnore_Mode" THEN dstIIBounds
                 ELSE Offset(localSrcBounds, srcOffset)
           r1 == scale_irect_roundout(r0, scaleFactorX, scaleFactorY)
       IN  decSrcRect' = scale_irect(r1, scaleFactorX, scaleFactorY)
    /\ decDstRect' = decSrcRect'
    /\ i' = 1
    /\ pc' = "decimateLoop"
    /\ UNCHANGED <<inputs, plan, geom, surfaces, rtc, ops, result>>

\* one iteration of the halving loop
DecimateStep ==
    /\ pc = "decimateLoop"
    /\ DecimateContinues
    /\ LET xAxis == i < scaleFactorX
           yAxis == i < scaleFactorY
           d == shrink_irect_by_2(decDstRect, xAxis, yAxis)
           first == mode # "kIgnore_Mode" /\ i = 1
           s == IF first THEN Offset(decSrcRect, <<-srcOffset[1], -srcOffset[2]>>)
                ELSE decSrcRect
           m == IF first THEN modeForScaling(mode) ELSE "ClampBilerp"
       IN
       /\ asserted' = asserted \cup
             (IF ShrinkEvenOK(decDstRect, xAxis, yAxis) THEN {} ELSE {"even"})
       /\ decDstRect' = d
       /\ \E allocOk \in BOOLEAN, refOk \in BOOLEAN :
            LET a == AllocOp("Decimate", "kApprox", d.fRight, d.fBottom, allocOk) IN
            IF allocOk
            THEN /\ surfaces' = Append(surfaces, Surface(d.fRight, d.fBottom, "kApprox"))
                 /\ rtc' = Len(surfaces')
                 /\ ops' = ops \o <<a, DrawOp("Decimate", d, s, m, NoBounds),
                                    RefOp("Decimate", refOk)>>
                 /\ srcOffset' = IF first THEN <<0, 0>> ELSE srcOffset
                 /\ decSrcRect' = IF refOk THEN d ELSE s
                 /\ i' = IF refOk THEN 2 * i ELSE i
                 /\ pc' = ReturnsOnFailure(refOk, "decimateLoop")
            ELSE /\ ops' = Append(ops, a)
                 /\ pc' = ReturnsOnFailure(FALSE, "decimateLoop")
                 /\ UNCHANGED <<surfaces, rtc, srcOffset, decSrcRect, i>>
    /\ UNCHANGED <<inputs, plan, xFit, yFit, localSrcBounds, srcRect, stages, result>>

\* Variant: the strip is cleared whether or not the filtered axis was decimated.
DecimateHaloAnyScale(contentRect) ==
    IF SigmaPositive(sigmaX)
    THEN <<ClearOp("Decimate", MakeXYWH(contentRect.fRight, contentRect.fTop,
                                        radiusX, Height(contentRect)))>>
    ELSE <<ClearOp("Decimate", MakeXYWH(contentRect.fLeft, contentRect.fBottom,
                                        Width(contentRect), radiusY))>>

\* the halo strip cleared after the last halving step
DecimateHalo(contentRect) ==
    IF SigmaPositive(sigmaX)
    THEN IF scaleFactorX > 1
         THEN <<ClearOp("Decimate", MakeXYWH(contentRect.fRight, contentRect.fTop,
                                             radiusX, Height(contentRect)))>>
         ELSE <<>>
    ELSE IF scaleFactorY > 1
         THEN <<ClearOp("Decimate", MakeXYWH(contentRect.fLeft, contentRect.fBottom,
                                             Width(contentRect), radiusY))>>
         ELSE <<>>

\* loop exit of decimate and its return into GaussianBlur
DecimateReturn ==
    /\ pc = "decimateLoop"
    /\ ~DecimateContinues
    /\ localSrcBounds' = decDstRect
    /\ asserted' = asserted \cup (IF rtc # 0 THEN {} ELSE {"decimateRTC"})
    /\ \E refOk \in BOOLEAN :
         /\ ops' = ops \o DecimateHalo(decDstRect) \o <<RefOp("Decimate", refOk)>>
         /\ pc' = ReturnsOnFailure(refOk, "convolveX")
    /\ UNCHANGED <<inputs, plan, srcOffset, xFit, yFit, srcRect, decim,
                   surfaces, rtc, stages, result>>

\* -------------------------------------------------------- convolve_gaussian
Neg(p) == <<-p[1], -p[2]>>

\* Variant: the local matrix translates by +srcOffset.
convolve_gaussian_1d_plus(stage, dstRect, off, m, bounds) ==
    DrawOp(stage, dstRect, Offset(dstRect, off), m, bounds)

\* convolve_gaussian_1d: one draw of dstRect, sampling at dstRect - srcOffset
convolve_gaussian_1d(stage, dstRect, off, m, bounds) ==
    DrawOp(stage, dstRect, Offset(dstRect, Neg(off)), m, bounds)

\* Variant: the second margin reaches only radius pixels past the interior.
convolve_gaussian_short_margin(stage, sRect, off, direction, radius, sBounds, m) ==
    LET dstRect0 == MakeWH(Width(sRect), Height(sRect))
        mid0 == Offset(sBounds, off)
        isX == direction = "kX"
        bounds == IF isX THEN <<sBounds.fLeft, sBounds.fRight>>
                  ELSE <<sBounds.fTop, sBounds.fBottom>>
        topRect == IF isX THEN MakeLTRB(0, 0, dstRect0.fRight, mid0.fTop)
                   ELSE MakeLTRB(0, 0, mid0.fLeft, dstRect0.fBottom)
        bottomRect == IF isX
                      THEN MakeLTRB(0, mid0.fBottom, dstRect0.fRight, dstRect0.fBottom)
                      ELSE MakeLTRB(mid0.fRight, 0, dstRect0.fRight, dstRect0.fBottom)
        midRect == IF isX THEN Inset(mid0, radius, 0) ELSE Inset(mid0, 0, radius)
        leftRect == IF isX THEN MakeLTRB(0, midRect.fTop, midRect.fLeft, midRect.fBottom)
                    ELSE MakeLTRB(midRect.fLeft, 0, midRect.fRight, midRect.fTop)
        rightRect == IF isX
                     THEN MakeLTRB(midRect.fRight, midRect.fTop,
                                   midRect.fRight + radius, midRect.fBottom)
                     ELSE MakeLTRB(midRect.fLeft, midRect.fBottom,
                                   midRect.fRight, midRect.fBottom + radius)
        dstRect == IF isX
                   THEN MakeLTRB(dstRect0.fLeft, midRect.fTop, dstRect0.fRight, midRect.fBottom)
                   ELSE MakeLTRB(midRect.fLeft, dstRect0.fTop, midRect.fRight, dstRect0.fBottom)
    IN
    IF m = "kIgnore_Mode"
    THEN <<convolve_gaussian_1d(stage, dstRect0, off, "kIgnore_Mode", NoBounds)>>
    ELSE (IF IsEmpty(topRect) THEN <<>> ELSE <<ClearOp(stage, topRect)>>)
         \o (IF IsEmpty(bottomRect) THEN <<>> ELSE <<ClearOp(stage, bottomRect)>>)
         \o (IF IsEmpty(midRect)
             THEN <<convolve_gaussian_1d(stage, dstRect, off, m, bounds)>>
             ELSE <<convolve_gaussian_1d(stage, leftRect, off, m, bounds),
                    convolve_gaussian_1d(stage, rightRect, off, m, bounds),
                    convolve_gaussian_1d(stage, midRect, off, "kIgnore_Mode", bounds)>>)

\* Variant: a pass whose content covers the whole destination is drawn as under kIgnore_Mode.
convolve_gaussian_degrading(stage, sRect, off, direction, radius, sBounds, m) ==
    LET dstRect0 == MakeWH(Width(sRect), Height(sRect))
        mid0 == Offset(sBounds, off)
        isX == direction = "kX"
        bounds == IF isX THEN <<sBounds.fLeft, sBounds.fRight>>
                  ELSE <<sBounds.fTop, sBounds.fBottom>>
        topRect == IF isX THEN MakeLTRB(0, 0, dstRect0.fRight, mid0.fTop)
                   ELSE MakeLTRB(0, 0, mid0.fLeft, dstRect0.fBottom)
        bottomRect == IF isX
                      THEN MakeLTRB(0, mid0.fBottom, dstRect0.fRight, dstRect0.fBottom)
                      ELSE MakeLTRB(mid0.fRight, 0, dstRect0.fRight, dstRect0.fBottom)
        midRect == IF isX THEN Inset(mid0, radius, 0) ELSE Inset(mid0, 0, radius)
        leftRect == IF isX THEN MakeLTRB(0, midRect.fTop, midRect.fLeft, midRect.fBottom)
                    ELSE MakeLTRB(midRect.fLeft, 0, midRect.fRight, midRect.fTop)
        rightRect == IF isX
                     THEN MakeLTRB(midRect.fRight, midRect.fTop,
                                   Width(dstRect0), midRect.fBottom)
                     ELSE MakeLTRB(midRect.fLeft, midRect.fBottom,
                                   midRect.fRight, Height(dstRect0))
        dstRect == IF isX
                   THEN MakeLTRB(dstRect0.fLeft, midRect.fTop, dstRect0.fRight, midRect.fBottom)
                   ELSE MakeLTRB(midRect.fLeft, dstRect0.fTop, midRect.fRight, dstRect0.fBottom)
    IN
    IF m = "kIgnore_Mode" \/ (~IsEmpty(dstRect0) /\ Inside(dstRect0, mid0))
    THEN <<convolve_gaussian_1d(stage, dstRect0, off, "kIgnore_Mode", NoBounds)>>
    ELSE (IF IsEmpty(topRect) THEN <<>> ELSE <<ClearOp(stage, topRect)>>)
         \o (IF IsEmpty(bottomRect) THEN <<>> ELSE <<ClearOp(stage, bottomRect)>>)
         \o (IF IsEmpty(midRect)
             THEN <<convolve_gaussian_1d(stage, dstRect, off, m, bounds)>>
             ELSE <<convolve_gaussian_1d(stage, leftRect, off, m, bounds),
                    convolve_gaussian_1d(stage, rightRect, off, m, bounds),
                    convolve_gaussian_1d(stage, midRect, off, "kIgnore_Mode", bounds)>>)

\* Variant: with an empty interior the single draw covers the whole destination.
convolve_gaussian_full_draw(stage, sRect, off, direction, radius, sBounds, m) ==
    LET dstRect0 == MakeWH(Width(sRect), Height(sRect))
        mid0 == Offset(sBounds, off)
        isX == direction = "kX"
        bounds == IF isX THEN <<sBounds.fLeft, sBounds.fRight>>
                  ELSE <<sBounds.fTop, sBounds.fBottom>>
        topRect == IF isX THEN MakeLTRB(0, 0, dstRect0.fRight, mid0.fTop)
                   ELSE MakeLTRB(0, 0, mid0.fLeft, dstRect0.fBottom)
        bottomRect == IF isX
                      THEN MakeLTRB(0, mid0.fBottom, dstRect0.fRight, dstRect0.fBottom)
                      ELSE MakeLTRB(mid0.fRight, 0, dstRect0.fRight, dstRect0.fBottom)
        midRect == IF isX THEN Inset(mid0, radius, 0) ELSE Inset(mid0, 0, radius)
        leftRect == IF isX THEN MakeLTRB(0, midRect.fTop, midRect.fLeft, midRect.fBottom)
                    ELSE MakeLTRB(midRect.fLeft, 0, midRect.fRight, midRect.fTop)
        rightRect == IF isX
                     THEN MakeLTRB(midRect.fRight, midRect.fTop,
                                   Width(dstRect0), midRect.fBottom)
                     ELSE MakeLTRB(midRect.fLeft, midRect.fBottom,
                                   midRect.fRight, Height(dstRect0))
        dstRect == IF isX
                   THEN MakeLTRB(dstRect0.fLeft, midRect.fTop, dstRect0.fRight, midRect.fBottom)
                   ELSE MakeLTRB(midRect.fLeft, dstRect0.fTop, midRect.fRight, dstRect0.fBottom)
    IN
    IF m = "kIgnore_Mode"
    THEN <<convolve_gaussian_1d(stage, dstRect0, off, "kIgnore_Mode", NoBounds)>>
    ELSE (IF IsEmpty(topRect) THEN <<>> ELSE <<ClearOp(stage, topRect)>>)
         \o (IF IsEmpty(bottomRect) THEN <<>> ELSE <<ClearOp(stage, bottomRect)>>)
         \o (IF IsEmpty(midRect)
             THEN <<convolve_gaussian_1d(stage, dstRect0, off, m, bounds)>>
             ELSE <<convolve_gaussian_1d(stage, leftRect, off, m, bounds),
                    convolve_gaussian_1d(stage, rightRect, off, m, bounds),
                    convolve_gaussian_1d(stage, midRect, off, "kIgnore_Mode", bounds)>>)

\* the clears and draws of convolve_gaussian after its allocation succeeded
convolve_gaussian(stage, sRect, off, direction, radius, sBounds, m) ==
    LET dstRect0 == MakeWH(Width(sRect), Height(sRect))
        mid0 == Offset(sBounds, off)
        isX == direction = "kX"
        bounds == IF isX THEN <<sBounds.fLeft, sBounds.fRight>>
                  ELSE <<sBounds.fTop, sBounds.fBottom>>
        topRect == IF isX THEN MakeLTRB(0, 0, dstRect0.fRight, mid0.fTop)
                   ELSE MakeLTRB(0, 0, mid0.fLeft, dstRect0.fBottom)
        bottomRect == IF isX
                      THEN MakeLTRB(0, mid0.fBottom, dstRect0.fRight, dstRect0.fBottom)
                      ELSE MakeLTRB(mid0.fRight, 0, dstRect0.fRight, dstRect0.fBottom)
        midRect == IF isX THEN Inset(mid0, radius, 0) ELSE Inset(mid0, 0, radius)
        leftRect == IF isX THEN MakeLTRB(0, midRect.fTop, midRect.fLeft, midRect.fBottom)
                    ELSE MakeLTRB(midRect.fLeft, 0, midRect.fRight, midRect.fTop)
        rightRect == IF isX
                     THEN MakeLTRB(midRect.fRight, midRect.fTop,
                                   Width(dstRect0), midRect.fBottom)
                     ELSE MakeLTRB(midRect.fLeft, midRect.fBottom,
                                   midRect.fRight, Height(dstRect0))
        dstRect == IF isX
                   THEN MakeLTRB(dstRect0.fLeft, midRect.fTop, dstRect0.fRight, midRect.fBottom)
                   ELSE MakeLTRB(midRect.fLeft, dstRect0.fTop, midRect.fRight, dstRect0.fBottom)
    IN
    IF m = "kIgnore_Mode"
    THEN <<convolve_gaussian_1d(stage, dstRect0, off, "kIgnore_Mode", NoBounds)>>
    ELSE (IF IsEmpty(topRect) THEN <<>> ELSE <<ClearOp(stage, topRect)>>)
         \o (IF IsEmpty(bottomRect) THEN <<>> ELSE <<ClearOp(stage, bottomRect)>>)
         \o (IF IsEmpty(midRect)
             THEN <<convolve_gaussian_1d(stage, dstRect, off, m, bounds)>>
             ELSE <<convolve_gaussian_1d(stage, leftRect, off, m, bounds),
                    convolve_gaussian_1d(stage, rightRect, off, m, bounds),
                    convolve_gaussian_1d(stage, midRect, off, "kIgnore_Mode", bounds)>>)

\* SkASSERT(srcRect.width() <= dstII.width() && srcRect.height() <= dstII.height())
ConvolveSizeAssert(sRect) ==
    IF Width(sRect) <= dstW /\ Height(sRect) <= dstH THEN {} ELSE {"convolveSize"}

\* the allocation request of a 1-D pass
ConvolveAlloc(stage, f, sRect, ok) == AllocOp(stage, f, Width(sRect), Height(sRect), ok)

\* Variant: the strip is as high as the radius of the pass just drawn.
XPassHaloRadiusX(sRect) ==
    IF SigmaPositive(sigmaY)
    THEN <<ClearOp("HaloClear", MakeXYWH(sRect.fLeft, sRect.fBottom, Width(sRect), radiusX))>>
    ELSE <<>>

\* the clear of radiusY rows below the X-pass output
XPassHalo(sRect) ==
    IF SigmaPositive(sigmaY)
    THEN <<ClearOp("HaloClear", MakeXYWH(sRect.fLeft, sRect.fBottom, Width(sRect), radiusY))>>
    ELSE <<>>

\* srcRect for the passes, and the X pass when sigmaX > 0
ConvolveX ==
    /\ pc = "convolveX"
    /\ LET sr == scale_irect_roundout(dstIIBounds, scaleFactorX, scaleFactorY) IN
       IF SigmaPositive(sigmaX)
       THEN /\ asserted' = asserted \cup ConvolveSizeAssert(sr)
            /\ \E allocOk \in BOOLEAN, refOk \in BOOLEAN :
                 LET a == ConvolveAlloc("ConvolveX", xFit, sr, allocOk) IN
                 IF allocOk
                 THEN /\ surfaces' = Append(surfaces,
                                            Surface(Width(a.rect), Height(a.rect), a.fit))
                      /\ rtc' = Len(surfaces')
                      /\ ops' = ops \o <<a>>
                                    \o convolve_gaussian("ConvolveX", sr, srcOffset, "kX",
                                                         radiusX, localSrcBounds, mode)
                                    \o XPassHalo(sr)
                                    \o <<RefOp("ConvolveX", refOk)>>
                      /\ stages' = stages \o <<"ConvolveX">>
                                   \o (IF SigmaPositive(sigmaY) THEN <<"HaloClear">> ELSE <<>>)
                      /\ pc' = ReturnsOnFailure(refOk, "convolveY")
                      /\ IF refOk
                         THEN /\ srcRect' = OffsetTo(sr, 0, 0)
                              /\ localSrcBounds' =
                                    IF mode = "kClamp_Mode"
                                    THEN Inset(srcRect', 0, radiusY) ELSE srcRect'
                              /\ srcOffset' = <<0, 0>>
                         ELSE /\ srcRect' = sr
                              /\ UNCHANGED <<localSrcBounds, srcOffset>>
                 ELSE /\ ops' = Append(ops, a)
                      /\ stages' = Append(stages, "ConvolveX")
                      /\ pc' = ReturnsOnFailure(FALSE, "convolveY")
                      /\ srcRect' = sr
                      /\ UNCHANGED <<surfaces, rtc, localSrcBounds, srcOffset>>
       ELSE /\ srcRect' = sr
            /\ pc' = "convolveY"
            /\ UNCHANGED <<asserted, surfaces, rtc, ops, stages, localSrcBounds, srcOffset>>
    /\ UNCHANGED <<inputs, plan, xFit, yFit, decim, result>>

\* the Y pass when sigmaY > 0
ConvolveY ==
    /\ pc = "convolveY"
    /\ IF SigmaPositive(sigmaY)
       THEN /\ asserted' = asserted \cup ConvolveSizeAssert(srcRect)
            /\ stages' = Append(stages, "ConvolveY")
            /\ \E allocOk \in BOOLEAN, refOk \in BOOLEAN :
                 LET a == ConvolveAlloc("ConvolveY", yFit, srcRect, allocOk) IN
                 IF allocOk
                 THEN /\ surfaces' = Append(surfaces,
                                            Surface(Width(a.rect), Height(a.rect), a.fit))
                      /\ rtc' = Len(surfaces')
                      /\ ops' = ops \o <<a>>
                                    \o convolve_gaussian("ConvolveY", srcRect, srcOffset, "kY",
                                                         radiusY, localSrcBounds, mode)
                                    \o <<RefOp("ConvolveY", refOk)>>
                      /\ pc' = ReturnsOnFailure(refOk, "finish")
                      /\ IF refOk
                         THEN /\ srcRect' = OffsetTo(srcRect, 0, 0)
                              /\ srcOffset' = <<0, 0>>
                         ELSE UNCHANGED <<srcRect, srcOffset>>
                 ELSE /\ ops' = Append(ops, a)
                      /\ pc' = ReturnsOnFailure(FALSE, "finish")
                      /\ UNCHANGED <<surfaces, rtc, srcRect, srcOffset>>
       ELSE /\ pc' = "finish"
            /\ UNCHANGED <<asserted, surfaces, rtc, ops, stages, srcRect, srcOffset>>
    /\ UNCHANGED <<inputs, plan, xFit, yFit, localSrcBounds, decim, result>>

\* ---------------------------------------------------------------- reexpand
\* Variant: the destination is requested at the size of the decimated source.
ReexpandAllocSourceSize(ok) ==
    AllocOp("Reexpand", fit, surfaces[rtc].w, surfaces[rtc].h, ok)

\* the allocation request of reexpand
ReexpandAlloc(ok) == AllocOp("Reexpand", fit, dstW, dstH, ok)

\* Variant: the strips are placed beside the local content bounds.
ReexpandClearsContent(sRect) ==
    <<ClearOp("Reexpand", MakeXYWH(localSrcBounds.fLeft, localSrcBounds.fBottom,
                                   Width(localSrcBounds) + 1, 1)),
      ClearOp("Reexpand", MakeXYWH(localSrcBounds.fRight, localSrcBounds.fTop,
                                   1, Height(localSrcBounds)))>>

\* the two 1-pixel clears on the source surface
ReexpandClears(sRect) ==
    <<ClearOp("Reexpand", MakeXYWH(sRect.fLeft, sRect.fBottom, Width(sRect) + 1, 1)),
      ClearOp("Reexpand", MakeXYWH(sRect.fRight, sRect.fTop, 1, Height(sRect)))>>

\* Variant: the destination rectangle of the draw is not scaled up.
ReexpandDrawUnscaled(sRect) ==
    DrawOp("Reexpand", sRect, sRect,
           IF mode # "kIgnore_Mode" THEN modeForScaling(mode) ELSE "ClampBilerp",
           NoBounds)

\* the upsampling draw
ReexpandDraw(sRect) ==
    DrawOp("Reexpand", scale_irect(sRect, scaleFactorX, scaleFactorY), sRect,
           IF mode # "kIgnore_Mode" THEN modeForScaling(mode) ELSE "ClampBilerp",
           NoBounds)

\* the end of GaussianBlur when a scale factor is greater than 1: reexpand
Reexpand ==
    /\ pc = "finish"
    /\ Scaling
    /\ asserted' = asserted \cup (IF rtc # 0 THEN {} ELSE {"finalRTC"})
    /\ stages' = Append(stages, "Reexpand")
    /\ LET sRect == MakeWH(surfaces[rtc].w, surfaces[rtc].h) IN
       \E refOk \in BOOLEAN, allocOk \in BOOLEAN :
         LET a == ReexpandAlloc(allocOk) IN
         IF refOk /\ allocOk
         THEN /\ surfaces' = Append(surfaces, Surface(Width(a.rect), Height(a.rect), a.fit))
              /\ rtc' = Len(surfaces')
              /\ ops' = ops \o ReexpandClears(sRect)
                            \o <<RefOp("Reexpand", TRUE), a, ReexpandDraw(sRect)>>
              /\ result' = rtc'
         ELSE /\ ops' = ops \o ReexpandClears(sRect) \o <<RefOp("Reexpand", refOk)>>
                            \o (IF refOk THEN <<a>> ELSE <<>>)
              /\ rtc' = 0
              /\ result' = 0
              /\ UNCHANGED surfaces
    /\ pc' = "done"
    /\ UNCHANGED <<inputs, plan, geom, decim>>

\* the end of GaussianBlur when nothing was decimated
ReturnResult ==
    /\ pc = "finish"
    /\ ~Scaling
    /\ asserted' = asserted \cup (IF rtc # 0 THEN {} ELSE {"finalRTC"})
    /\ result' = rtc
    /\ pc' = "done"
    /\ UNCHANGED <<inputs, plan, geom, decim, gpu>>

Next ==
    \/ Start
    \/ AdjustSigmaLoopX
    \/ AdjustSigmaReturnX
    \/ AdjustSigmaLoopY
    \/ AdjustSigmaReturnY
    \/ Convolve2D
    \/ GeneralPath
    \/ DecimateEnter
    \/ DecimateStep
    \/ DecimateReturn
    \/ ConvolveX
    \/ ConvolveY
    \/ Reexpand
    \/ ReturnResult

Spec == Init /\ [][Next]_vars

SpecPlan == InitPlan /\ [][Next]_vars

\* GaussianBlur runs on one thread and executes its next statement whenever it
\* has one: every enabled step is eventually taken.
SpecLive == InitPlan /\ [][Next]_vars /\ WF_vars(Next)

SpecScenario == InitScenario /\ [][Next]_vars

\* GaussianBlur for sigmas of at most MAX_BLUR_SIGMA: adjust_sigma does not loop
\* and nothing is decimated or reexpanded
NextConvolve ==
    \/ Start
    \/ AdjustSigmaReturnX
    \/ AdjustSigmaReturnY
    \/ Convolve2D
    \/ GeneralPath
    \/ ConvolveX
    \/ ConvolveY
    \/ ReturnResult

SpecConvolve == InitConvolve /\ [][NextConvolve]_vars

\* GaussianBlur up to the return of decimate
NextDecimate ==
    \/ Start
    \/ AdjustSigmaLoopX
    \/ AdjustSigmaReturnX
    \/ AdjustSigmaLoopY
    \/ AdjustSigmaReturnY
    \/ GeneralPath
    \/ DecimateEnter
    \/ DecimateStep
    \/ DecimateReturn

SpecDecimate == InitDecimate /\ [][NextDecimate]_vars

\* ==================================================================== claims
Done == pc = "done"
Succeeded == pc = "done" /\ result # 0
Planned == pc \notin {"start", "adjustX", "adjustY"} /\ GrPixelConfigToColorType(config)
\* the allocation requests issued so far, in order
Allocs == SelectSeq(ops, LAMBDA o : o.op = "alloc")
AnyScale == scaleFactorX > 1 \/ scaleFactorY > 1

\* C1: on every successful run (fused, two-pass, decimated) the returned surface
\* is the last one requested, and it was requested with exactly the width and
\* height of dstBounds, whatever the sizes of the intermediate surfaces.
C1_FinalSizeIsDstBounds ==
    Succeeded =>
        /\ result = Len(surfaces)
        /\ surfaces[result].w = dstBounds.fRight - dstBounds.fLeft
        /\ surfaces[result].h = dstBounds.fBottom - dstBounds.fTop
        /\ Allocs[Len(Allocs)].rect =
              MakeWH(dstBounds.fRight - dstBounds.fLeft, dstBounds.fBottom - dstBounds.fTop)

\* C1 witness: a decimated run succeeded whose intermediate surfaces were smaller
\* than the destination.
C1_Witness ==
    /\ Succeeded
    /\ AnyScale
    /\ Len(surfaces) >= 3
    /\ \E k \in 1..(Len(surfaces) - 1) :
          surfaces[k].w < surfaces[result].w \/ surfaces[k].h < surfaces[result].h

\* C2: once an allocation or a texture reference has failed, that request is the
\* last thing issued to the renderer, the call has returned, and it returned null.
C2_FailureAbortsWithNull ==
    \A k \in 1..Len(ops) :
        ~ops[k].ok => /\ k = Len(ops)
                      /\ pc = "done"
                      /\ result = 0

\* C2 witness: a request failed after earlier stages had already drawn.
C2_Witness ==
    /\ Len(ops) > 0
    /\ ~ops[Len(ops)].ok
    /\ \E k \in 1..Len(ops) : ops[k].op = "draw" /\ ops[k].stage # ops[Len(ops)].stage
    /\ result = 0

StageRank(s) ==
    CASE s = "Decimate" -> 1
      [] s = "ConvolveX" -> 2
      [] s = "HaloClear" -> 3
      [] s = "ConvolveY" -> 4
      [] s = "Reexpand" -> 5
      [] OTHER -> 0

StagesNoHalo == SelectSeq(stages, LAMBDA s : s # "HaloClear")

GeneralOrder ==
    (IF scaleFactorX > 1 \/ scaleFactorY > 1 THEN <<"Decimate">> ELSE <<>>)
    \o (IF sigmaX[1] > 0 THEN <<"ConvolveX">> ELSE <<>>)
    \o (IF sigmaY[1] > 0 THEN <<"ConvolveY">> ELSE <<>>)
    \o (IF scaleFactorX > 1 \/ scaleFactorY > 1 THEN <<"Reexpand">> ELSE <<>>)

\* C3: the stages run in one of two linear orders.  At every moment the stages
\* entered so far are either the fused 2-D convolution alone or strictly
\* ascending in the order Decimate, ConvolveX, halo-clear, ConvolveY, Reexpand;
\* and a successful run that is not fused ran Decimate and Reexpand iff a scale
\* factor is > 1, ConvolveX iff sigmaX > 0 and ConvolveY iff sigmaY > 0.
C3_LinearStageOrder ==
    /\ \/ stages = <<"Convolve2D">>
       \/ /\ \A k \in 1..Len(stages) : StageRank(stages[k]) > 0
          /\ \A k \in 1..(Len(stages) - 1) : StageRank(stages[k]) < StageRank(stages[k + 1])
    /\ Succeeded => (stages = <<"Convolve2D">> \/ StagesNoHalo = GeneralOrder)

\* C3 witness: a successful run through all five stages of the general path.
C3_Witness ==
    /\ Succeeded
    /\ stages = <<"Decimate", "ConvolveX", "HaloClear", "ConvolveY", "Reexpand">>

\* C4: in a successful run the last allocation uses the caller's fit and every
\* allocation before it uses approximate fit.
C4_OnlyLastAllocUsesCallerFit ==
    Succeeded =>
        /\ Len(Allocs) >= 1
        /\ Allocs[Len(Allocs)].fit = fit
        /\ \A k \in 1..(Len(Allocs) - 1) : Allocs[k].fit = "kApprox"

\* C4 witness: an exact-fit request succeeded over several allocations.
C4_Witness ==
    /\ Succeeded
    /\ fit = "kExact"
    /\ Len(Allocs) >= 2
    /\ ~AnyScale

FusedTaken == "Convolve2D" \in {stages[k] : k \in 1..Len(stages)}

\* C5: past the dispatch, the fused 2-D path was taken iff both effective sigmas
\* are positive and (2*radiusX+1)*(2*radiusY+1) <= MAX_KERNEL_SIZE; whenever it
\* was taken both scale factors are 1 and the no-scaling assertion did not fire.
C5_FusedIffSmallKernel ==
    (Planned /\ pc # "dispatch") =>
        /\ FusedTaken <=> /\ sigmaX[1] > 0
                          /\ sigmaY[1] > 0
                          /\ (2 * radiusX + 1) * (2 * radiusY + 1) <= MAX_KERNEL_SIZE
        /\ FusedTaken => scaleFactorX = 1 /\ scaleFactorY = 1
        /\ "fusedScale" \notin asserted

\* C5 witness: the fused path ran and returned a surface.
C5_Witness ==
    /\ FusedTaken
    /\ Succeeded
    /\ radiusX # radiusY

\* r = ceil(3 * sigma), stated without the operator the model computes it with
IsCeil3(r, sigma) == r * sigma[2] >= 3 * sigma[1] /\ (r - 1) * sigma[2] < 3 * sigma[1]

\* C6: after planning, on each axis the effective sigma is <= 4.0, the radius is
\* ceil(3 * effective sigma) and at most kMaxKernelRadius (12), and the radius
\* assertion did not fire.
C6_SigmaAndRadiusBounded ==
    Planned =>
        /\ sigmaX[1] <= 4 * sigmaX[2]
        /\ sigmaY[1] <= 4 * sigmaY[2]
        /\ IsCeil3(radiusX, sigmaX)
        /\ IsCeil3(radiusY, sigmaY)
        /\ radiusX <= kMaxKernelRadius
        /\ radiusY <= kMaxKernelRadius
        /\ asserted \cap {"radiusX", "radiusY"} = {}

\* C6 witness: a sigma above 4.0 was planned down to the maximum radius while the
\* other axis got a radius that is not a multiple of 3.
C6_Witness ==
    /\ Planned
    /\ scaleFactorX > 1
    /\ radiusX = kMaxKernelRadius
    /\ radiusY % 3 # 0

\* C7: the scale factors produced by the planner are powers of two >= 1, so the
\* power-of-two assertion at the entry of decimate holds.
C7_ScaleFactorsArePow2 ==
    Planned =>
        /\ SkIsPow2(scaleFactorX)
        /\ SkIsPow2(scaleFactorY)
        /\ "pow2" \notin asserted

\* C8 as stated: scale factor times destination dimension never exceeds the
\* maximum texture size (for destinations that themselves fit in a texture).
C8_ScaleTimesDimWithinMax ==
    (Planned /\ dstW <= maxTextureSize /\ dstH <= maxTextureSize) =>
        /\ scaleFactorX * dstW <= maxTextureSize
        /\ scaleFactorY * dstH <= maxTextureSize

\* C8 amended: on each axis the planned scale factor itself never exceeds the
\* maximum texture size.
C8_ScaleWithinMax ==
    Planned => scaleFactorX <= maxTextureSize /\ scaleFactorY <= maxTextureSize

\* C8 witness: a destination that fits in a texture, planned with a scale factor
\* whose product with the width does not.
C8_Witness ==
    /\ Planned
    /\ dstW <= maxTextureSize
    /\ scaleFactorX > 1
    /\ scaleFactorX * dstW > maxTextureSize

\* the loop of adjust_sigma reaches a doubling that exceeds maxTex: some j-th
\* doubling (to 2^j) is reached, the sigma after j-1 halvings still being > 4.0
DoublingWouldExceed(arg, maxTex) ==
    \E j \in 1..8 : 2 ^ j > maxTex /\ arg[1] > 4 * (2 ^ (j - 1)) * arg[2]

\* C9: after planning each scale factor lies in [1, maxTextureSize]; and when a
\* doubling would exceed maxTextureSize the axis ends with scale factor
\* maxTextureSize, effective sigma 4.0 and radius 12.
C9_ClampToMaxTextureSize ==
    Planned =>
        /\ 1 <= scaleFactorX /\ scaleFactorX <= maxTextureSize
        /\ 1 <= scaleFactorY /\ scaleFactorY <= maxTextureSize
        /\ DoublingWouldExceed(argSigmaX, maxTextureSize) =>
              scaleFactorX = maxTextureSize /\ sigmaX[1] = 4 * sigmaX[2] /\ radiusX = 12
        /\ DoublingWouldExceed(argSigmaY, maxTextureSize) =>
              scaleFactorY = maxTextureSize /\ sigmaY[1] = 4 * sigmaY[2] /\ radiusY = 12

\* C9 witness: the second doubling exceeded the maximum and the axis was clamped.
C9_Witness ==
    /\ Planned
    /\ DoublingWouldExceed(argSigmaX, maxTextureSize)
    /\ maxTextureSize >= 2
    /\ scaleFactorX = maxTextureSize
    /\ ~DoublingWouldExceed(argSigmaY, maxTextureSize)
    /\ scaleFactorY > 1

\* C10: planning is monotone in sigma: of the two axes of one call (same maximum
\* texture size), the one with the smaller requested sigma never gets the larger
\* scale factor.
C10_ScaleMonotoneInSigma ==
    Planned =>
        /\ argSigmaX[1] * argSigmaY[2] <= argSigmaY[1] * argSigmaX[2] =>
              scaleFactorX <= scaleFactorY
        /\ argSigmaY[1] * argSigmaX[2] <= argSigmaX[1] * argSigmaY[2] =>
              scaleFactorY <= scaleFactorX

\* C10 witness: two different sigmas above 4.0 planned to different scale factors.
C10_Witness ==
    /\ Planned
    /\ argSigmaX[1] * argSigmaY[2] < argSigmaY[1] * argSigmaX[2]
    /\ 1 < scaleFactorX
    /\ scaleFactorX < scaleFactorY

\* C11: when the source's pixel config has no color type, the call returns null
\* at once: nothing is planned, no surface is requested, nothing is drawn or cleared.
C11_UnmappedConfigReturnsNullFirst ==
    ~GrPixelConfigToColorType(config) =>
        /\ pc \in {"start", "done"}
        /\ result = 0
        /\ surfaces = <<>>
        /\ ops = <<>>
        /\ stages = <<>>
        /\ scaleFactorX = 0 /\ scaleFactorY = 0

\* C11 witness: a call with an unmapped config has returned, for sigmas that
\* would otherwise have decimated.
C11_Witness ==
    /\ ~GrPixelConfigToColorType(config)
    /\ pc = "done"
    /\ SigmaGT(argSigmaX, MAX_BLUR_SIGMA)
    /\ result = 0

\* C12: a call with sigmaX = 0 and sigmaY = 0 never returns a surface: no stage
\* is entered, no surface is requested, nothing is drawn, the result is null.
C12_BothSigmasZeroYieldsNull ==
    (argSigmaX[1] = 0 /\ argSigmaY[1] = 0) =>
        /\ result = 0
        /\ rtc = 0
        /\ surfaces = <<>>
        /\ ops = <<>>
        /\ stages = <<>>

\* C12 witness: a call with both sigmas zero and a mapped config ran through the
\* general path and returned; the assertion on the sigmas is the one it tripped.
C12_Witness ==
    /\ argSigmaX[1] = 0 /\ argSigmaY[1] = 0
    /\ GrPixelConfigToColorType(config)
    /\ pc = "done"
    /\ "sigma" \in asserted
    /\ result = 0

\* decimate has returned to GaussianBlur with its content rectangle reported
DecimateReturned == pc = "convolveX" /\ stages = <<"Decimate">>

\* C13 as stated: after decimate returns, the content rectangle it reports has
\* even left and right if X was halved and even top and bottom if Y was halved.
C13_ReportedRectEven ==
    DecimateReturned =>
        /\ scaleFactorX > 1 => is_even(localSrcBounds.fLeft) /\ is_even(localSrcBounds.fRight)
        /\ scaleFactorY > 1 => is_even(localSrcBounds.fTop) /\ is_even(localSrcBounds.fBottom)

\* C13: the rectangle decimate starts halving from (the content rectangle
\* rounded out to the scale factors) has left and right that are multiples of
\* scaleFactorX and top and bottom that are multiples of scaleFactorY.
C13_StartRectMultipleOfScale ==
    (pc = "decimateLoop" /\ i = 1) =>
        /\ decDstRect.fLeft % scaleFactorX = 0
        /\ decDstRect.fRight % scaleFactorX = 0
        /\ decDstRect.fTop % scaleFactorY = 0
        /\ decDstRect.fBottom % scaleFactorY = 0

\* C13 witness: a content rectangle straddling the origin was rounded out for
\* two different scale factors, one of them 4.
C13_Witness ==
    /\ pc = "decimateLoop" /\ i = 1
    /\ scaleFactorX = 4 /\ scaleFactorY = 2
    /\ decDstRect.fLeft < 0
    /\ decDstRect.fRight >= scaleFactorX
    /\ decDstRect.fBottom > scaleFactorY

\* the halving steps decimate has completed: its allocation requests
DecimateAllocs == SelectSeq(ops, LAMBDA o : o.op = "alloc" /\ o.stage = "Decimate")

\* C14: every call of GaussianBlur returns: the loop of adjust_sigma exits for
\* every sigma and maximum texture size, the halving loop of decimate exits for
\* every pair of scale factors, and no later stage waits for anything.
C14_Terminates == <>Done

\* C14 witness: a call returned a surface after adjust_sigma looped on both axes,
\* was capped on one of them, and decimate took more than one halving step.
C14_Witness ==
    /\ Succeeded
    /\ scaleFactorX > 1 /\ scaleFactorY > 1
    /\ scaleFactorX = maxTextureSize
    /\ Len(DecimateAllocs) >= 2

\* the 200x200 Clamp blur with sigma 8.0 on both axes
Scenario200 ==
    /\ argSigmaX = <<8, 1>> /\ argSigmaY = <<8, 1>>
    /\ mode = "kClamp_Mode"
    /\ maxTextureSize >= 2
    /\ dstW = 200 /\ dstH = 200

\* C15: the 200x200 blur with sigmaX = sigmaY = 8.0, Clamp and a maximum texture
\* size of at least 2 plans sigma 4.0, scale factor 2 and radius 12 on each axis,
\* does not take the fused path, and when no request fails runs Decimate with a
\* single halving of both axes, ConvolveX, the halo clear, ConvolveY and
\* Reexpand, returning a surface requested at exactly 200x200.
C15_Scenario200 ==
    (Scenario200 /\ Planned) =>
        /\ sigmaX[1] = 4 * sigmaX[2] /\ sigmaY[1] = 4 * sigmaY[2]
        /\ scaleFactorX = 2 /\ scaleFactorY = 2
        /\ radiusX = 12 /\ radiusY = 12
        /\ ~FusedTaken
        /\ pc # "dispatch" => ~FusedPath
        /\ (Done /\ \A k \in 1..Len(ops) : ops[k].ok) =>
              /\ Succeeded
              /\ stages = <<"Decimate", "ConvolveX", "HaloClear", "ConvolveY", "Reexpand">>
              /\ Len(DecimateAllocs) = 1
              /\ \A k \in 1..Len(ops) :
                    (ops[k].stage = "Decimate" /\ ops[k].op = "draw") =>
                        /\ 2 * Width(ops[k].rect) = Width(ops[k].src)
                        /\ 2 * Height(ops[k].rect) = Height(ops[k].src)
              /\ \E k \in 1..Len(ops) : ops[k].stage = "HaloClear" /\ ops[k].op = "clear"
              /\ result = Len(surfaces)
              /\ surfaces[result].w = 200 /\ surfaces[result].h = 200

\* C15 witness: the scenario ran to its end with no failed request, for the
\* 100x100 square centred in the destination.
C15_Witness ==
    /\ Scenario200
    /\ srcBounds = MakeXYWH(50, 50, 100, 100)
    /\ dstBounds = MakeXYWH(0, 0, 200, 200)
    /\ Succeeded
    /\ Len(stages) = 5

\* both scale factors are powers of two, as decimate asserts on entry
Pow2Scales == SkIsPow2(scaleFactorX) /\ SkIsPow2(scaleFactorY)

\* C16: when both scale factors are powers of two, the rectangle at the start
\* of each halving step has even left and right if the step halves X and even
\* top and bottom if it halves Y, so the assertions of shrink_irect_by_2 never
\* fire, for every content rectangle, source offset and mode.
C16_EvenBeforeEachHalving ==
    Pow2Scales =>
        /\ "even" \notin asserted
        /\ (pc = "decimateLoop" /\ DecimateContinues) =>
              ShrinkEvenOK(decDstRect, i < scaleFactorX, i < scaleFactorY)

\* C16 witness: the second halving step of a scale factor 4 is about to start
\* on a rectangle with a negative left edge, the other axis no longer halved.
C16_Witness ==
    /\ pc = "decimateLoop"
    /\ i = 2
    /\ scaleFactorX = 4 /\ scaleFactorY = 2
    /\ mode # "kIgnore_Mode"
    /\ decDstRect.fLeft < 0
    /\ ~is_even(decDstRect.fBottom)
    /\ "even" \notin asserted

\* the draws of the halving steps, in order
DecimateDraws == SelectSeq(ops, LAMBDA o : o.op = "draw" /\ o.stage = "Decimate")

MaxScale == IF scaleFactorX > scaleFactorY THEN scaleFactorX ELSE scaleFactorY

\* the rectangle decimate starts from: the content rectangle shifted by the
\* source offset of the call, or the destination bounds under kIgnore_Mode
DecimateInputRect ==
    IF mode = "kIgnore_Mode"
    THEN [fLeft |-> 0, fTop |-> 0, fRight |-> dstW, fBottom |-> dstH]
    ELSE [fLeft |-> srcBounds.fLeft - dstBounds.fLeft,
          fTop |-> srcBounds.fTop - dstBounds.fTop,
          fRight |-> srcBounds.fRight - dstBounds.fLeft,
          fBottom |-> srcBounds.fBottom - dstBounds.fTop]

\* C17: for power-of-two scale factors (sx, sy) decimate takes exactly
\* log2(max(sx, sy)) halving steps, step j halving X iff j <= log2(sx) and Y iff
\* j <= log2(sy), and it reports the content rectangle (floor(L/sx), floor(T/sy),
\* ceil(R/sx), ceil(B/sy)) of its input rectangle (L, T, R, B).
C17_StepsAndReportedRect ==
    Pow2Scales =>
        /\ \A j \in 1..Len(DecimateDraws) :
              /\ Width(DecimateDraws[j].src) =
                    (IF 2 ^ (j - 1) < scaleFactorX THEN 2 ELSE 1) * Width(DecimateDraws[j].rect)
              /\ Height(DecimateDraws[j].src) =
                    (IF 2 ^ (j - 1) < scaleFactorY THEN 2 ELSE 1) * Height(DecimateDraws[j].rect)
        /\ pc = "decimateLoop" =>
              /\ 2 ^ Len(DecimateDraws) = i
              /\ i <= MaxScale
        /\ DecimateReturned =>
              /\ 2 ^ Len(DecimateDraws) = MaxScale
              /\ localSrcBounds.fLeft = DecimateInputRect.fLeft \div scaleFactorX
              /\ localSrcBounds.fTop = DecimateInputRect.fTop \div scaleFactorY
              /\ localSrcBounds.fRight = -((-DecimateInputRect.fRight) \div scaleFactorX)
              /\ localSrcBounds.fBottom = -((-DecimateInputRect.fBottom) \div scaleFactorY)

\* C17 witness: decimate returned after two steps for scale factors (4, 2), on a
\* shifted content rectangle whose edges are not multiples of the scale factors.
C17_Witness ==
    /\ DecimateReturned
    /\ scaleFactorX = 4 /\ scaleFactorY = 2
    /\ mode # "kIgnore_Mode"
    /\ Len(DecimateDraws) = 2
    /\ DecimateInputRect.fLeft = -1
    /\ DecimateInputRect.fRight % 4 = 1
    /\ DecimateInputRect.fBottom % 2 = 1
    /\ localSrcBounds.fLeft = -1

\* C18 as stated: after every successful decimate call, whatever the mode, the
\* source offset is (0, 0).
C18_OffsetResetAfterDecimate == DecimateReturned => srcOffset = <<0, 0>>

\* the clears decimate issued
DecimateClears == SelectSeq(ops, LAMBDA o : o.op = "clear" /\ o.stage = "Decimate")

\* C19 as stated: after the last halving step, a pass still to run along an axis
\* of scale factor 1 while the other axis was decimated gets a halo strip of
\* its kernel radius cleared just beyond the content rectangle.
C19_HaloForUnscaledAxis ==
    DecimateReturned =>
        /\ (SigmaPositive(sigmaX) /\ scaleFactorX = 1 /\ scaleFactorY > 1) =>
              \E k \in 1..Len(DecimateClears) :
                  /\ DecimateClears[k].rect.fLeft = localSrcBounds.fRight
                  /\ Width(DecimateClears[k].rect) = radiusX
        /\ (SigmaPositive(sigmaY) /\ scaleFactorY = 1 /\ scaleFactorX > 1) =>
              \E k \in 1..Len(DecimateClears) :
                  /\ DecimateClears[k].rect.fTop = localSrcBounds.fBottom
                  /\ Height(DecimateClears[k].rect) = radiusY

\* C19: after the last halving step decimate clears at most one strip, between
\* its last draw and its return: radiusX columns right of the content rectangle
\* when an X pass follows and X was decimated; radiusY rows below it when no X
\* pass follows and Y was decimated; nothing when an X pass follows on an
\* undecimated X axis.
C19_HaloForDecimatedAxis ==
    DecimateReturned =>
        /\ (SigmaPositive(sigmaX) /\ scaleFactorX > 1) =>
              /\ Len(DecimateClears) = 1
              /\ DecimateClears[1].rect =
                    [fLeft |-> localSrcBounds.fRight, fTop |-> localSrcBounds.fTop,
                     fRight |-> localSrcBounds.fRight + radiusX,
                     fBottom |-> localSrcBounds.fBottom]
        /\ (~SigmaPositive(sigmaX) /\ scaleFactorY > 1) =>
              /\ Len(DecimateClears) = 1
              /\ DecimateClears[1].rect =
                    [fLeft |-> localSrcBounds.fLeft, fTop |-> localSrcBounds.fBottom,
                     fRight |-> localSrcBounds.fRight,
                     fBottom |-> localSrcBounds.fBottom + radiusY]
        /\ (SigmaPositive(sigmaX) /\ scaleFactorX = 1) => DecimateClears = <<>>
        /\ Len(DecimateClears) = 1 =>
              /\ ops[Len(ops) - 1] = DecimateClears[1]
              /\ ops[Len(ops) - 2].op = "ref"
              /\ ops[Len(ops) - 3] = DecimateDraws[Len(DecimateDraws)]

\* C19 witness: decimate returned after clearing the strip right of a content
\* rectangle whose two axes were decimated by different factors.
C19_Witness ==
    /\ DecimateReturned
    /\ SigmaPositive(sigmaX) /\ SigmaPositive(sigmaY)
    /\ scaleFactorX = 2 /\ scaleFactorY = 4
    /\ Len(DecimateClears) = 1
    /\ Width(DecimateClears[1].rect) = radiusX
    /\ radiusX > 0

\* the pixel columns and rows looked at around the surfaces
PixelRange == (0 - 3)..(MaxDim + 7)

\* the requests a step has added
NewOps == SubSeq(ops', Len(ops) + 1, Len(ops'))

\* the draw of the interior rectangle among the requests of a pass in a domain mode
InteriorDraws ==
    {NewOps[k] : k \in {j \in 1..Len(NewOps) :
                            NewOps[j].op = "draw" /\ NewOps[j].mode = "kIgnore_Mode"}}

\* pixel (x, y) of the destination lies in rectangle r
InRect(x, y, r) == r.fLeft <= x /\ x < r.fRight /\ r.fTop <= y /\ y < r.fBottom

\* the interior draw o of an X pass over content rectangle c covers exactly the
\* pixels whose source row is a row of c and whose taps are all columns of c
InteriorExactX(o, c, radius) ==
    /\ o.bounds = <<c.fLeft, c.fRight>>
    /\ \A x \in PixelRange, y \in PixelRange :
          InRect(x, y, o.rect) <=>
              /\ c.fTop <= y - o.rect.fTop + o.src.fTop
              /\ y - o.rect.fTop + o.src.fTop < c.fBottom
              /\ \A t \in (0 - radius)..radius :
                    /\ o.bounds[1] <= x - o.rect.fLeft + o.src.fLeft + t
                    /\ x - o.rect.fLeft + o.src.fLeft + t < o.bounds[2]

InteriorExactY(o, c, radius) ==
    /\ o.bounds = <<c.fTop, c.fBottom>>
    /\ \A x \in PixelRange, y \in PixelRange :
          InRect(x, y, o.rect) <=>
              /\ c.fLeft <= x - o.rect.fLeft + o.src.fLeft
              /\ x - o.rect.fLeft + o.src.fLeft < c.fRight
              /\ \A t \in (0 - radius)..radius :
                    /\ o.bounds[1] <= y - o.rect.fTop + o.src.fTop + t
                    /\ y - o.rect.fTop + o.src.fTop + t < o.bounds[2]

\* C20: in a 1-D pass with a domain mode and a non-empty interior rectangle, a
\* destination pixel lies in the interior rectangle iff its source position is
\* within the content rectangle on the cross axis and all 2*radius+1 taps along
\* the pass axis fall in [bounds[0], bounds[1]); in X and in Y, for every offset.
C20_InteriorIsExactlyUnclippedTaps ==
    [][/\ (pc = "convolveX" /\ mode # "kIgnore_Mode") =>
             \A o \in InteriorDraws : InteriorExactX(o, localSrcBounds, radiusX)
       /\ (pc = "convolveY" /\ mode # "kIgnore_Mode") =>
             \A o \in InteriorDraws : InteriorExactY(o, localSrcBounds, radiusY)]_vars

\* C20 witness: a Y pass with a domain mode drew a non-empty interior rectangle
\* after an X pass had drawn one with a source offset other than zero.
C20_Witness ==
    /\ mode # "kIgnore_Mode"
    /\ \E k \in 1..Len(ops) :
          /\ ops[k].stage = "ConvolveX" /\ ops[k].op = "draw" /\ ops[k].mode = "kIgnore_Mode"
          /\ ops[k].rect.fLeft # ops[k].src.fLeft
          /\ Width(ops[k].rect) > 1
    /\ \E k \in 1..Len(ops) :
          /\ ops[k].stage = "ConvolveY" /\ ops[k].op = "draw" /\ ops[k].mode = "kIgnore_Mode"
          /\ Height(ops[k].rect) >= 1
          /\ Width(ops[k].rect) >= 1

\* the clears and draws a pass step has issued on its own surface
PassOps(stage) ==
    {k \in 1..Len(NewOps) : NewOps[k].stage = stage /\ NewOps[k].op \in {"clear", "draw"}}

\* the draws a pass step has issued
PassDraws(stage) == {k \in PassOps(stage) : NewOps[k].op = "draw"}

\* the content rectangle of the coming pass in destination coordinates
ShiftedContent == Offset(localSrcBounds, srcOffset)

\* the requests of a pass over destination rectangle d tile d: every pixel of d
\* is in exactly one cleared or drawn rectangle, every other pixel in none
TilesExactly(stage, d) ==
    /\ Cardinality(PassDraws(stage)) = 3
    /\ \A x \in PixelRange, y \in PixelRange :
          Cardinality({k \in PassOps(stage) : InRect(x, y, NewOps[k].rect)}) =
              (IF InRect(x, y, d) THEN 1 ELSE 0)

\* a step of the X (Y) pass that got its surface, in a domain mode
XPassStep == pc = "convolveX" /\ mode # "kIgnore_Mode" /\ Len(NewOps) > 1
YPassStep == pc = "convolveY" /\ mode # "kIgnore_Mode" /\ Len(NewOps) > 1

\* C21: in a 1-D pass with a domain mode, when the shifted content rectangle
\* lies inside the destination rectangle and is longer than 2*radius along the
\* pass axis, the cleared strips and the three drawn rectangles are pairwise
\* disjoint and together cover exactly the destination rectangle, in X and in Y.
C21_PassTilesDestination ==
    [][/\ (/\ XPassStep
            /\ Inside(ShiftedContent, NewOps[1].rect)
            /\ Width(ShiftedContent) > 2 * radiusX) =>
                TilesExactly("ConvolveX", NewOps[1].rect)
       /\ (/\ YPassStep
            /\ Inside(ShiftedContent, NewOps[1].rect)
            /\ Height(ShiftedContent) > 2 * radiusY) =>
                TilesExactly("ConvolveY", NewOps[1].rect)]_vars

\* C21 witness: an X pass in a domain mode cleared a strip above and a strip
\* below a content rectangle lying strictly inside the destination and drew
\* two margins and an interior, none of them empty.
C21_Witness ==
    /\ mode # "kIgnore_Mode"
    /\ Len(SelectSeq(ops, LAMBDA o : o.stage = "ConvolveX" /\ o.op = "clear")) = 2
    /\ Len(SelectSeq(ops, LAMBDA o : o.stage = "ConvolveX" /\ o.op = "draw"
                                     /\ ~IsEmpty(o.rect))) = 3
    /\ srcBounds.fLeft > dstBounds.fLeft
    /\ srcBounds.fRight < dstBounds.fRight

\* C22 as stated: a 1-D pass requested with a domain mode whose content
\* rectangle covers the whole draw rectangle is drawn with kIgnore_Mode and
\* without margin draws.
C22_CoveringContentDegradesToIgnore ==
    [][/\ (XPassStep /\ Inside(NewOps[1].rect, ShiftedContent)) =>
             /\ Cardinality(PassDraws("ConvolveX")) = 1
             /\ \A k \in PassDraws("ConvolveX") : NewOps[k].mode = "kIgnore_Mode"
       /\ (YPassStep /\ Inside(NewOps[1].rect, ShiftedContent)) =>
             /\ Cardinality(PassDraws("ConvolveY")) = 1
             /\ \A k \in PassDraws("ConvolveY") : NewOps[k].mode = "kIgnore_Mode"]_vars

\* the draws of a pass whose content covers the destination: never the single
\* kIgnore_Mode draw; with content of length len > 2*radius two margins in the
\* requested mode and the interior, the margins before lo + radius and from
\* hi - radius on; otherwise one draw in the requested mode
CoveringPassDraws(stage, len, radius, bounds) ==
    LET D == PassDraws(stage)
        M == {k \in D : NewOps[k].mode = mode /\ NewOps[k].bounds = bounds}
    IN  /\ M # {}
        /\ IF len > 2 * radius
           THEN /\ Cardinality(D) = 3
                /\ Cardinality(M) = 2
                /\ Cardinality(D \ M) = 1
           ELSE D = M /\ Cardinality(D) = 1

\* C22: a 1-D pass requested with a domain mode is not degraded when its content
\* rectangle covers the whole draw rectangle: it still issues its draws in the
\* requested mode with the content bounds - two margins next to a kIgnore_Mode
\* interior when the content is longer than 2*radius, one draw otherwise.
C22_CoveringContentKeepsMode ==
    [][/\ (XPassStep /\ Inside(NewOps[1].rect, ShiftedContent)) =>
             CoveringPassDraws("ConvolveX", Width(ShiftedContent), radiusX,
                               <<localSrcBounds.fLeft, localSrcBounds.fRight>>)
       /\ (YPassStep /\ Inside(NewOps[1].rect, ShiftedContent)) =>
             CoveringPassDraws("ConvolveY", Height(ShiftedContent), radiusY,
                               <<localSrcBounds.fTop, localSrcBounds.fBottom>>)]_vars

\* C22 witness: an X pass in a domain mode whose content rectangle was the
\* whole destination drew two non-empty margins in that mode.
C22_Witness ==
    /\ mode # "kIgnore_Mode"
    /\ srcBounds = dstBounds
    /\ Len(SelectSeq(ops, LAMBDA o : /\ o.stage = "ConvolveX" /\ o.op = "draw"
                                     /\ o.mode = mode /\ ~IsEmpty(o.rect))) = 2
    /\ Len(SelectSeq(ops, LAMBDA o : /\ o.stage = "ConvolveX" /\ o.op = "draw"
                                     /\ o.mode = "kIgnore_Mode")) = 1

\* the draws of a pass step are the single draw of rectangle r in the requested
\* mode with the given bounds
SingleBoundedDraw(stage, r, bounds) ==
    /\ Cardinality(PassDraws(stage)) = 1
    /\ \A k \in PassDraws(stage) :
          /\ NewOps[k].mode = mode
          /\ NewOps[k].bounds = bounds
          /\ NewOps[k].rect = r

\* C23: in a 1-D pass with a domain mode, when the content rectangle inset by
\* radius along the pass axis is empty, exactly one draw is issued, in the
\* requested mode with the content bounds, over the full destination extent along
\* the pass axis and the content's range on the cross axis; no kIgnore_Mode draw.
C23_RadiusCoversContentSingleDraw ==
    [][/\ (/\ XPassStep
            /\ \/ ShiftedContent.fRight - radiusX <= ShiftedContent.fLeft + radiusX
               \/ ShiftedContent.fBottom <= ShiftedContent.fTop) =>
                SingleBoundedDraw("ConvolveX",
                                  [fLeft |-> 0, fTop |-> ShiftedContent.fTop,
                                   fRight |-> NewOps[1].rect.fRight,
                                   fBottom |-> ShiftedContent.fBottom],
                                  <<localSrcBounds.fLeft, localSrcBounds.fRight>>)
       /\ (/\ YPassStep
            /\ \/ ShiftedContent.fBottom - radiusY <= ShiftedContent.fTop + radiusY
               \/ ShiftedContent.fRight <= ShiftedContent.fLeft) =>
                SingleBoundedDraw("ConvolveY",
                                  [fLeft |-> ShiftedContent.fLeft, fTop |-> 0,
                                   fRight |-> ShiftedContent.fRight,
                                   fBottom |-> NewOps[1].rect.fBottom],
                                  <<localSrcBounds.fTop, localSrcBounds.fBottom>>)]_vars

\* C23 witness: a Y pass in a domain mode, its radius covering the content, drew
\* once, in that mode, over fewer columns than the destination has.
C23_Witness ==
    /\ mode # "kIgnore_Mode"
    /\ argSigmaX[1] = 0
    /\ Len(SelectSeq(ops, LAMBDA o : o.stage = "ConvolveY" /\ o.op = "draw")) = 1
    /\ \E k \in 1..Len(ops) :
          /\ ops[k].stage = "ConvolveY" /\ ops[k].op = "draw"
          /\ ops[k].mode = mode
          /\ Width(ops[k].rect) > 0
          /\ Width(ops[k].rect) < dstW
          /\ Height(ops[k].rect) = dstH

\* the positions in ops of the requests of one stage
StageOps(stage) == {k \in 1..Len(ops) : ops[k].stage = stage}

\* C24: in the general path with both effective sigmas positive, once the X pass
\* has drawn, exactly one clear of the radiusY rows just below the X-pass output
\* rectangle (same left edge and width) is issued, after every X-pass draw and
\* before every Y-pass request; with sigmaY = 0 no such clear is issued.
C24_HaloClearBetweenPasses ==
    Planned =>
        /\ ~SigmaPositive(sigmaY) => StageOps("HaloClear") = {}
        /\ (/\ SigmaPositive(sigmaX) /\ SigmaPositive(sigmaY)
            /\ \E j \in StageOps("ConvolveX") : ops[j].op = "draw") =>
              /\ Cardinality(StageOps("HaloClear")) = 1
              /\ \A k \in StageOps("HaloClear") :
                    /\ ops[k].op = "clear"
                    /\ \E a \in StageOps("ConvolveX") :
                          /\ ops[a].op = "alloc"
                          /\ ops[k].rect = [fLeft |-> ops[a].rect.fLeft,
                                             fTop |-> ops[a].rect.fBottom,
                                             fRight |-> ops[a].rect.fRight,
                                             fBottom |-> ops[a].rect.fBottom + radiusY]
                    /\ \A j \in StageOps("ConvolveX") :
                          ops[j].op \in {"alloc", "clear", "draw"} => j < k
                    /\ \A j \in StageOps("ConvolveY") \cup StageOps("Reexpand") : k < j

\* C24 witness: a decimated two-pass run with different radii succeeded, its
\* clear issued between the X-pass draws and the Y-pass requests.
C24_Witness ==
    /\ Succeeded
    /\ AnyScale
    /\ radiusX # radiusY
    /\ radiusX > 0
    /\ Cardinality(StageOps("HaloClear")) = 1
    /\ \E j \in StageOps("ConvolveY") : ops[j].op = "draw"

\* reexpand has been entered
Reexpanding == StageOps("Reexpand") # {}

\* the first request of reexpand
FirstReexpandOp == CHOOSE k \in StageOps("Reexpand") : \A j \in StageOps("Reexpand") : k <= j

\* the surface handed to reexpand: the last one requested before it
ReexpandSource == IF result # 0 THEN surfaces[Len(surfaces) - 1] ELSE surfaces[Len(surfaces)]

\* C25 as stated: before its draw, reexpand clears a 1-pixel strip just below
\* and a 1-pixel strip just right of the local content bounds passed to it.
C25_ClearsBesideContentBounds ==
    Reexpanding =>
        /\ ops[FirstReexpandOp].op = "clear"
        /\ ops[FirstReexpandOp].rect.fTop = localSrcBounds.fBottom
        /\ ops[FirstReexpandOp].rect.fBottom = localSrcBounds.fBottom + 1
        /\ ops[FirstReexpandOp + 1].op = "clear"
        /\ ops[FirstReexpandOp + 1].rect.fLeft = localSrcBounds.fRight
        /\ ops[FirstReexpandOp + 1].rect.fRight = localSrcBounds.fRight + 1

\* C25: the first two requests of reexpand, before its texture reference, its
\* allocation and its draw, are clears on the source surface of size w x h: the
\* row (0, h, w + 1, h + 1) just below the surface's rectangle and the column
\* (w, 0, w + 1, h) just right of it, wherever the local content bounds lie.
C25_ClearsBesideSourceSurface ==
    Reexpanding =>
        /\ ops[FirstReexpandOp].op = "clear"
        /\ ops[FirstReexpandOp].rect =
              [fLeft |-> 0, fTop |-> ReexpandSource.h,
               fRight |-> ReexpandSource.w + 1, fBottom |-> ReexpandSource.h + 1]
        /\ ops[FirstReexpandOp + 1].op = "clear"
        /\ ops[FirstReexpandOp + 1].stage = "Reexpand"
        /\ ops[FirstReexpandOp + 1].rect =
              [fLeft |-> ReexpandSource.w, fTop |-> 0,
               fRight |-> ReexpandSource.w + 1, fBottom |-> ReexpandSource.h]
        /\ \A k \in StageOps("Reexpand") :
              ops[k].op \in {"ref", "alloc", "draw"} => k > FirstReexpandOp + 1

\* C25 witness: reexpand drew after its two clears, for local content bounds
\* that are not the rectangle of the source surface.
C25_Witness ==
    /\ Succeeded
    /\ \E k \in StageOps("Reexpand") : ops[k].op = "draw"
    /\ localSrcBounds.fBottom # ReexpandSource.h
    /\ localSrcBounds.fRight # ReexpandSource.w

\* the surface handed to reexpand has the size requested for the last pass
SourceIsRoundedOutSize ==
    /\ ReexpandSource.w = -((-dstW) \div scaleFactorX)
    /\ ReexpandSource.h = -((-dstH) \div scaleFactorY)

\* C26: when the surface handed to reexpand is ceil(W/sx) by ceil(H/sy), the
\* destination rectangle of the upsampling draw is (0, 0, width*sx, height*sy)
\* and contains the final destination rectangle (0, 0, W, H), the whole of the
\* returned surface.
C26_UpsamplingDrawCoversDestination ==
    \A k \in StageOps("Reexpand") :
        (ops[k].op = "draw" /\ SourceIsRoundedOutSize) =>
            /\ ops[k].rect = [fLeft |-> 0, fTop |-> 0,
                               fRight |-> ReexpandSource.w * scaleFactorX,
                               fBottom |-> ReexpandSource.h * scaleFactorY]
            /\ ops[k].rect.fRight >= dstW
            /\ ops[k].rect.fBottom >= dstH
            /\ surfaces[result].w = dstW
            /\ surfaces[result].h = dstH
            /\ \A j \in StageOps("Reexpand") : ops[j].op = "draw" => j = k

\* C26 witness: reexpand drew from a rounded-out surface into a rectangle
\* reaching beyond the destination on one axis and ending exactly on it on the other.
C26_Witness ==
    /\ Succeeded
    /\ Reexpanding
    /\ SourceIsRoundedOutSize
    /\ \E k \in StageOps("Reexpand") :
          /\ ops[k].op = "draw"
          /\ ops[k].rect.fRight > dstW
          /\ ops[k].rect.fBottom = dstH
          /\ scaleFactorY > 1
====
